---- MODULE Spec2Model ----
(***************************************************************************)
(* LocalStore (flask_store/stores/local.py): path and URL resolution, the  *)
(* configuration defaults, and the save protocol (resolve, ensure the      *)
(* directory, write, close) run by concurrent callers over one filesystem. *)
(*                                                                         *)
(* Strings are sequences of one-character strings; None is Python's None.  *)
(***************************************************************************)
EXTENDS Integers, Sequences, FiniteSets, TLC

VARIABLES
    config,         \* app.config: a dict, i.e. a function on the keys that are set
    cwd,            \* the process's current working directory (os.getcwdu())
    hostSet,        \* history: the keys the host application set itself
    defaultsCalls,  \* history: how many times app_defaults has run
    store_path,     \* self.store_path
    destination,    \* self.destination
    op, args, ret,  \* the last method called on the store, its arguments, its result
    fs,             \* the filesystem: path -> "absent" | "dir" | "file"
    data,           \* the bytes of each file
    faults,         \* whether the environment interferes (failing calls, another actor)
    pc,             \* where each caller of save is
    file,           \* each caller's upload: [filename, content]
    filename,       \* save's local `filename`
    path,           \* save's local `path`
    directory,      \* save's local `directory`
    pending,        \* the os.makedirs frames of each caller, innermost last
    result,         \* what save returned or raised
    closed,         \* how many times file.close() ran
    raised,         \* history: the errno os.makedirs raised into save
    makedirsCalls,  \* history: how many times save called os.makedirs
    saveCalled,     \* history: file.save(path) was called
    writeErr,       \* history: the errno file.save(path) raised
    seen,           \* what exists(filename) returned right after save
    completed,      \* history: the callers whose write finished, in order
    overlap         \* history: a caller opened the target while another's write was in progress

appVars == <<config, cwd, hostSet, defaultsCalls>>

storeVars == <<store_path, destination>>

callVars == <<op, args, ret>>

fsVars == <<fs, data, faults>>

saveVars == <<pc, file, filename, path, directory, pending, result, closed>>

histVars == <<raised, makedirsCalls, saveCalled, writeErr, seen, completed, overlap>>

vars == <<appVars, storeVars, callVars, fsVars, saveVars, histVars>>

(* ------------------------------ bounds --------------------------------- *)

\* Longest path segment handed to join / the URL builders.
MaxSegLen == 2

\* Most segments handed to join in one call.
MaxParts == 2

(* ------------------------------ strings -------------------------------- *)

\* Python's None: a value that is no string (a one-token sequence that no
\* alphabet below can spell).
None == <<"None">>

\* A KeyError raised by a dict lookup, as a result value.
KeyError == <<"KeyError">>

\* os.path.sep on POSIX.
sep == "/"

\* The characters path segments are drawn from: the separator, a letter, a dot.
PathChars == {sep, "a", "."}

RECURSIVE StringsUpTo(_, _)
\* Every string over `chars` of length at most n.
StringsUpTo(chars, n) ==
    IF n = 0 THEN {<<>>}
    ELSE LET shorter == StringsUpTo(chars, n - 1)
         IN  shorter \cup {Append(s, c) : s \in {t \in shorter : Len(t) = n - 1}, c \in chars}

RECURSIVE lstrip(_, _)
\* str.lstrip(chars): drop every leading character that is in `chars`.
lstrip(s, chars) ==
    IF s # <<>> /\ Head(s) \in chars THEN lstrip(Tail(s), chars) ELSE s

RECURSIVE rstrip(_, _)
\* str.rstrip(chars): drop every trailing character that is in `chars`.
rstrip(s, chars) ==
    IF s # <<>> /\ s[Len(s)] \in chars THEN rstrip(SubSeq(s, 1, Len(s) - 1), chars) ELSE s

\* str.startswith / str.endswith for a one-character argument.
startswith(s, c) == s # <<>> /\ Head(s) = c

endswith(s, c) == s # <<>> /\ s[Len(s)] = c

\* posixpath.join(a, b): an absolute b replaces a; otherwise b is appended,
\* with a separator unless a is empty or already ends with one.
os_path_join(a, b) ==
    IF startswith(b, sep) THEN b
    ELSE IF a = <<>> \/ endswith(a, sep) THEN a \o b
    ELSE a \o <<sep>> \o b

(* ------------------------------ LocalStore.join ------------------------ *)

\* Mutant of JoinPart: the leading separators of later parts are kept.
JoinPartUnstripped(i, part) == part

\* local.py:81-82: every part after the first loses its leading separators.
\* (enumerate counts from 0; sequences here are indexed from 1.)
JoinPart(i, part) == IF i > 1 THEN lstrip(part, {sep}) ELSE part

RECURSIVE JoinLoop(_, _, _)
\* local.py:80-83: the loop body, from part i on, with the path joined so far.
JoinLoop(pth, parts, i) ==
    IF i > Len(parts) THEN pth
    ELSE JoinLoop(os_path_join(pth, JoinPart(i, parts[i])), parts, i + 1)

\* LocalStore.join(*parts), local.py:70-85.
join(parts) == rstrip(JoinLoop(<<>>, parts, 1), {sep})

(* ------------------------------ configuration -------------------------- *)

\* '/flaskstore', local.py:68 (one token stands for the word).
DefaultUrlPrefix == <<sep, "flaskstore">>

\* d[key] = value.
setitem(d, key, value) ==
    [k \in DOMAIN d \cup {key} |-> IF k = key THEN value ELSE d[k]]

\* Mutant of setdefault: the value is assigned whether the key is set or not.
setdefault_overwrites(d, key, value) == setitem(d, key, value)

\* dict.setdefault(key, value): the key keeps its value when it is set.
setdefault(d, key, value) ==
    IF key \in DOMAIN d THEN d ELSE setitem(d, key, value)

\* LocalStore.app_defaults(app), local.py:56-68; getcwdu is os.getcwdu()'s value.
app_defaults(cfg, getcwdu) ==
    setdefault(setdefault(cfg, "STORE_PATH", getcwdu), "STORE_URL_PREFIX", DefaultUrlPrefix)

(* ------------------------------ paths ---------------------------------- *)

\* LocalStore.absolute_path(filename), local.py:87-96.
absolute_path(self, name) == join(<<self.store_path, name>>)

\* `if self.destination:` -- None and '' are both false.
truthy(s) == s # None /\ s # <<>>

\* LocalStore.relative_path(filename), local.py:98-113.
relative_path(self, name) ==
    join((IF truthy(self.destination) THEN <<self.destination>> ELSE <<>>) \o <<name>>)

(* ------------------------------ URLs ----------------------------------- *)

\* BaseStore.url_join(*parts): the separator-stripping join, on URL segments.
url_join(parts) == join(parts)

\* The percent escape of one character: a character that is unsafe in a URL
\* becomes '%' and its two hexadecimal digits, the '%' itself included; the
\* separator and every other character stand.
PercentEscape(ch) ==
    IF ch = " " THEN <<"%", "2", "0">>
    ELSE IF ch = "%" THEN <<"%", "2", "5">>
    ELSE <<ch>>

RECURSIVE path_to_uri(_)
\* flask_store.utils.path_to_uri(path): the path-to-URI encoder, which
\* escapes the characters unsafe in a URL and leaves '/' as the separator.
path_to_uri(pth) ==
    IF pth = <<>> THEN <<>>
    ELSE PercentEscape(Head(pth)) \o path_to_uri(Tail(pth))

RECURSIVE str_split(_, _)
\* str.split('/'): the pieces of s between separators, cur being the piece
\* in progress.
str_split(s, cur) ==
    IF s = <<>> THEN <<cur>>
    ELSE IF Head(s) = sep THEN <<cur>> \o str_split(Tail(s), <<>>)
    ELSE str_split(Tail(s), Append(cur, Head(s)))

RECURSIVE str_join(_)
\* '/'.join(segments).
str_join(segments) ==
    IF segments = <<>> THEN <<>>
    ELSE IF Len(segments) = 1 THEN segments[1]
    ELSE segments[1] \o <<sep>> \o str_join(Tail(segments))

IsDot(x) == x = <<".">>

NotDot(x) == x # <<".">>

IsDotDot(x) == x = <<".", ".">>

RECURSIVE UrljoinCollapse(_)
\* urlparse.urljoin's loop over the segments: the first '..' that is not the
\* last segment and follows a segment other than '' and '..' is deleted with
\* that segment, until there is none.
UrljoinCollapse(segments) ==
    LET hits == {j \in 2..(Len(segments) - 1) :
                    /\ IsDotDot(segments[j])
                    /\ segments[j - 1] # <<>> /\ ~IsDotDot(segments[j - 1])}
    IN  IF hits = {} THEN segments
        ELSE LET j == CHOOSE h \in hits : \A o \in hits : h <= o
             IN  UrljoinCollapse(SubSeq(segments, 1, j - 2)
                                 \o SubSeq(segments, j + 1, Len(segments)))

\* urlparse.urljoin's treatment of the segments of a relative path: a last
\* '.' becomes '', every other '.' goes, the '..' are collapsed, and a last
\* '..' is dropped with the segment before it.
UrljoinSegments(segments) ==
    LET n  == Len(segments)
        s1 == IF IsDot(segments[n]) THEN [segments EXCEPT ![n] = <<>>] ELSE segments
        s2 == SelectSeq(s1, NotDot)
        s3 == UrljoinCollapse(s2)
    IN  IF s3 = << <<>>, <<".", ".">> >> THEN << <<>>, <<>> >>
        ELSE IF Len(s3) >= 2 /\ IsDotDot(s3[Len(s3)])
             THEN SubSeq(s3, 1, Len(s3) - 2) \o << <<>> >>
        ELSE s3

\* urlparse.urlunparse for the scheme and host of `base` and a path: a path
\* that does not start with a slash gets one, an empty path adds nothing.
urlunparse(base, pth) ==
    IF pth # <<>> /\ ~startswith(pth, sep) THEN base \o <<sep>> \o pth ELSE base \o pth

\* The scheme of the base, with its colon (the base is one token).
UrlScheme(base) == <<"https:">>

\* The host a url that starts with two slashes names: what follows them, up
\* to the next slash.
UrlNetloc(url) == str_split(SubSeq(url, 3, Len(url)), <<>>)[1]

\* urlparse.urljoin(base, url) for a base that is an https scheme and a host
\* with no path, and a url without ':', '?', '#' and ';'. A false base gives
\* url and an empty url gives base. A url naming a host keeps the base's
\* scheme only. An absolute path is placed at the host's root as it is; a
\* relative one has its dot segments resolved first.
urljoin(base, url) ==
    IF ~truthy(base) THEN url
    ELSE IF url = <<>> THEN base
    ELSE LET named == Len(url) >= 2 /\ url[1] = sep /\ url[2] = sep
             pth   == IF named
                      THEN SubSeq(url, 3 + Len(UrlNetloc(url)), Len(url))
                      ELSE url
         IN  IF named /\ UrlNetloc(url) # <<>> THEN UrlScheme(base) \o url
             ELSE IF startswith(pth, sep) THEN urlunparse(base, pth)
             ELSE IF pth = <<>> THEN base
             ELSE urlunparse(base, str_join(UrljoinSegments(str_split(pth, <<>>))))

\* LocalStore.relative_url(filename), local.py:134-148.
relative_url(self, cfg, name) ==
    IF "STORE_URL_PREFIX" \notin DOMAIN cfg THEN KeyError
    ELSE LET parts == <<cfg["STORE_URL_PREFIX"]>>
                      \o (IF truthy(self.destination) THEN <<self.destination>> ELSE <<>>)
                      \o <<name>>
         IN  path_to_uri(url_join(parts))

\* LocalStore.absolute_url(filename), local.py:115-132. The lookup of
\* STORE_DOMAIN at line 125 raises KeyError when the key is not set. The value
\* assigned to path at line 126 is overwritten at line 128 whatever the domain
\* is, and line 132 encodes what relative_url has encoded already.
absolute_url(self, cfg, name) ==
    IF "STORE_DOMAIN" \notin DOMAIN cfg THEN KeyError
    ELSE LET rel   == relative_url(self, cfg, name)
             url0 == IF ~truthy(cfg["STORE_DOMAIN"]) THEN rel ELSE None
             pth  == IF rel = KeyError THEN KeyError
                      ELSE urljoin(cfg["STORE_DOMAIN"], rel)
         IN  IF pth = KeyError THEN KeyError ELSE path_to_uri(pth)

(* ------------------------------ inputs --------------------------------- *)

\* One token for a scheme and host, e.g. https://cdn.example.com.
Domain == <<"https://cdn.example.com">>

\* The characters URL segments are drawn from.
UrlChars == {sep, "a", ".", " "}

Segments == StringsUpTo(PathChars, MaxSegLen)

UrlSegments == StringsUpTo(UrlChars, MaxSegLen)

RECURSIVE SeqsUpTo(_, _)
\* Every sequence of at most n elements of S.
SeqsUpTo(S, n) ==
    IF n = 0 THEN {<<>>}
    ELSE LET shorter == SeqsUpTo(S, n - 1)
         IN  shorter \cup {Append(s, x) : s \in {t \in shorter : Len(t) = n - 1}, x \in S}

\* The argument lists join is called with.
JoinInputs == SeqsUpTo(Segments, MaxParts)

\* Absolute base directories (store_path is resolved before any join).
StorePaths == {<<sep, "a">>, <<sep, "a", sep>>, <<sep, "a", sep, "a">>}

Destinations == {None, <<>>, <<"a">>}

UrlPrefixes == {DefaultUrlPrefix, <<"a">>}

Domains == {None, <<>>, Domain}

Cwds == {<<sep, "a">>, <<sep, "b">>}

\* The store object the methods run on.
self == [store_path |-> store_path, destination |-> destination]

(* ------------------------------ path calls ----------------------------- *)

\* The two callers of save.
Callers == {"c1", "c2"}

\* The save-side state when no save is under way.
NoSave ==
    /\ fs = [p \in {<<sep>>} |-> "dir"] /\ data = [p \in {<<sep>>} |-> <<>>]
    /\ faults = FALSE
    /\ pc = [c \in Callers |-> "idle"]
    /\ file = [c \in Callers |-> [filename |-> <<>>, content |-> <<>>]]
    /\ filename = [c \in Callers |-> None]
    /\ path = [c \in Callers |-> None]
    /\ directory = [c \in Callers |-> None]
    /\ pending = [c \in Callers |-> <<>>]
    /\ result = [c \in Callers |-> [kind |-> "none", errno |-> "none", value |-> None]]
    /\ closed = [c \in Callers |-> 0]
    /\ raised = [c \in Callers |-> "none"]
    /\ makedirsCalls = [c \in Callers |-> 0]
    /\ saveCalled = [c \in Callers |-> FALSE]
    /\ writeErr = [c \in Callers |-> "none"]
    /\ seen = [c \in Callers |-> "unset"]
    /\ completed = <<>>
    /\ overlap = FALSE

\* Each behaviour makes one call: the methods are pure, so a second call
\* would see what the first saw.

\* A call of join(*parts).
CallJoin ==
    /\ op = "none"
    /\ \E parts \in JoinInputs :
           /\ op' = "join" /\ args' = parts /\ ret' = join(parts)
           /\ UNCHANGED <<appVars, storeVars, fsVars, saveVars, histVars>>

\* A call of absolute_path(filename).
CallAbsolutePath ==
    /\ op = "none"
    /\ \E name \in Segments :
           /\ op' = "absolute_path" /\ args' = <<name>>
           /\ ret' = absolute_path(self, name)
           /\ UNCHANGED <<appVars, storeVars, fsVars, saveVars, histVars>>

\* A call of relative_path(filename).
CallRelativePath ==
    /\ op = "none"
    /\ \E name \in Segments :
           /\ op' = "relative_path" /\ args' = <<name>>
           /\ ret' = relative_path(self, name)
           /\ UNCHANGED <<appVars, storeVars, fsVars, saveVars, histVars>>

\* A call of relative_url(filename).
CallRelativeUrl ==
    /\ op = "none"
    /\ \E name \in UrlSegments :
           /\ op' = "relative_url" /\ args' = <<name>>
           /\ ret' = relative_url(self, config, name)
           /\ UNCHANGED <<appVars, storeVars, fsVars, saveVars, histVars>>

\* A call of absolute_url(filename).
CallAbsoluteUrl ==
    /\ op = "none"
    /\ \E name \in UrlSegments :
           /\ op' = "absolute_url" /\ args' = <<name>>
           /\ ret' = absolute_url(self, config, name)
           /\ UNCHANGED <<appVars, storeVars, fsVars, saveVars, histVars>>

\* A store over some base directory, nothing called yet.
InitPath ==
    /\ cwd = <<sep, "a">>
    /\ store_path \in StorePaths
    /\ destination \in Destinations
    /\ config = [STORE_PATH |-> store_path, STORE_URL_PREFIX |-> DefaultUrlPrefix,
                 STORE_DOMAIN |-> None]
    /\ hostSet = {} /\ defaultsCalls = 0
    /\ op = "none" /\ args = <<>> /\ ret = None
    /\ NoSave

NextPath == CallJoin \/ CallAbsolutePath \/ CallRelativePath

SpecPath == InitPath /\ [][NextPath]_vars

\* The configuration of an application: the two keys app_defaults sets, and
\* STORE_DOMAIN when the host has set it (to None, '' or a domain).
UrlConfigs ==
    {[STORE_PATH |-> <<sep, "a">>, STORE_URL_PREFIX |-> prefix] : prefix \in UrlPrefixes}
    \cup {[STORE_PATH |-> <<sep, "a">>, STORE_URL_PREFIX |-> prefix, STORE_DOMAIN |-> domain] :
             prefix \in UrlPrefixes, domain \in Domains}

\* An application after app_defaults; nothing in local.py sets STORE_DOMAIN.
InitUrl ==
    /\ cwd = <<sep, "a">>
    /\ store_path = <<sep, "a">>
    /\ destination \in Destinations
    /\ config \in UrlConfigs
    /\ hostSet = {} /\ defaultsCalls = 0
    /\ op = "none" /\ args = <<>> /\ ret = None
    /\ NoSave

NextUrl == CallRelativeUrl \/ CallAbsoluteUrl

SpecUrl == InitUrl /\ [][NextUrl]_vars

(* ------------------------------ configuration steps -------------------- *)

\* How many times app_defaults is run in one behaviour.
MaxCalls == 2

ConfigKeys == {"STORE_PATH", "STORE_URL_PREFIX"}

\* The values a host application may give a key; None is a value like another.
HostValues == {None, <<sep, "srv">>, <<sep, "a">>, DefaultUrlPrefix}

\* Store initialisation runs LocalStore.app_defaults(app).
AppDefaults ==
    /\ defaultsCalls < MaxCalls
    /\ config' = app_defaults(config, cwd)
    /\ defaultsCalls' = defaultsCalls + 1
    /\ UNCHANGED <<cwd, hostSet, storeVars, callVars, fsVars, saveVars, histVars>>

\* The host application sets a key itself: app.config['STORE_PATH'] = ...
HostSet ==
    \E k \in ConfigKeys, v \in HostValues :
        /\ config' = setitem(config, k, v)
        /\ hostSet' = hostSet \cup {k}
        /\ UNCHANGED <<cwd, defaultsCalls, storeVars, callVars, fsVars, saveVars, histVars>>

\* The process changes its working directory, so os.getcwdu() changes.
Chdir ==
    \E d \in Cwds \ {cwd} :
        /\ cwd' = d
        /\ UNCHANGED <<config, hostSet, defaultsCalls, storeVars, callVars, fsVars, saveVars, histVars>>

\* An application whose host has set any of the keys, or none.
InitDefaults ==
    /\ cwd \in Cwds
    /\ \E keys \in SUBSET ConfigKeys : config \in [keys -> HostValues]
    /\ hostSet = DOMAIN config
    /\ defaultsCalls = 0
    /\ store_path = <<sep, "a">> /\ destination = None
    /\ op = "none" /\ args = <<>> /\ ret = None
    /\ NoSave

NextDefaults == AppDefaults \/ HostSet \/ Chdir

SpecDefaults == InitDefaults /\ [][NextDefaults]_vars

(* ------------------------------ claims: paths and URLs ----------------- *)

\* The parts with the leading separators of every non-first part removed.
StripLater(parts) ==
    [i \in 1..Len(parts) |-> IF i > 1 THEN lstrip(parts[i], {sep}) ELSE parts[i]]

\* C5: join gives the same result as join of the parts whose non-first
\* segments have lost their leading separators, and a non-first segment that
\* starts with a separator never makes the result absolute when the first
\* segment is not.
JoinSafety ==
    op = "join" =>
        /\ ret = join(StripLater(args))
        /\ (args # <<>> /\ ~startswith(args[1], sep)) => ~startswith(ret, sep)

\* C5 witness: a later segment starting with a separator has been joined to a
\* non-empty relative first segment.
JoinSafetyWitness ==
    /\ op = "join" /\ Len(args) = 2
    /\ args[1] = <<"a">> /\ args[2] = <<sep, "a">>
    /\ ret = <<"a", sep, "a">>

RECURSIVE Components(_, _)
\* The separator-delimited components of path p, cur being the one in progress.
Components(p, cur) ==
    IF p = <<>> THEN <<cur>>
    ELSE IF Head(p) = sep THEN <<cur>> \o Components(Tail(p), <<>>)
    ELSE Components(Tail(p), Append(cur, Head(p)))

RECURSIVE Resolve(_, _)
\* The directory names left after walking components cs from `at`: empty and
\* "." components stay put, ".." moves to the parent (the root is its own).
Resolve(cs, at) ==
    IF cs = <<>> THEN at
    ELSE IF Head(cs) \in {<<>>, <<".">>} THEN Resolve(Tail(cs), at)
    ELSE IF Head(cs) = <<".", ".">>
         THEN Resolve(Tail(cs), IF at = <<>> THEN at ELSE SubSeq(at, 1, Len(at) - 1))
    ELSE Resolve(Tail(cs), Append(at, Head(cs)))

\* The location an absolute path denotes, as the names from the root down.
Location(p) == Resolve(Components(p, <<>>), <<>>)

\* Path p is absolute and denotes base or something below it.
Under(p, base) ==
    /\ startswith(p, sep)
    /\ Len(Location(base)) <= Len(Location(p))
    /\ SubSeq(Location(p), 1, Len(Location(base))) = Location(base)

\* C6, as claimed: for every filename, absolute_path(filename) denotes a
\* location under base_path.
AbsolutePathAnchored ==
    op = "absolute_path" => Under(ret, store_path)

\* No domain is configured: STORE_DOMAIN is absent, None or empty.
NoDomain(cfg) == "STORE_DOMAIN" \notin DOMAIN cfg \/ ~truthy(cfg["STORE_DOMAIN"])

\* C8, as claimed: with no domain configured (absent, None or empty),
\* absolute_url(filename) does not fail and returns what relative_url(filename)
\* returns, for every filename.
AbsoluteUrlFallback ==
    (op = "absolute_url" /\ NoDomain(config)) =>
        /\ ret # KeyError
        /\ ret = relative_url(self, config, args[1])

\* C10: a run of app_defaults changes no key that is set (whoever set it), and
\* a run after the first changes nothing at all.
DefaultsIdempotent ==
    [][defaultsCalls' # defaultsCalls =>
          /\ \A k \in DOMAIN config : k \in DOMAIN config' /\ config'[k] = config[k]
          /\ defaultsCalls >= 1 => config' = config]_vars

\* C10 witness: app_defaults has run twice, under different working
\* directories, over a STORE_PATH the host set; that value stands, and the
\* unset prefix got its default.
DefaultsIdempotentWitness ==
    /\ defaultsCalls = 2
    /\ hostSet = {"STORE_PATH"}
    /\ config["STORE_PATH"] = <<sep, "srv">>
    /\ config["STORE_URL_PREFIX"] = DefaultUrlPrefix

(* ------------------------------ filesystem ----------------------------- *)

\* str.rfind(sep) + 1: the length of the prefix that ends at the last
\* separator, 0 when there is none.
RECURSIVE rfind1(_)
rfind1(p) ==
    IF p = <<>> THEN 0
    ELSE IF p[Len(p)] = sep THEN Len(p)
    ELSE rfind1(SubSeq(p, 1, Len(p) - 1))

\* posixpath.split(p): (head, tail) around the last separator; head loses its
\* trailing separators unless it consists of separators only.
os_path_split(p) ==
    LET i    == rfind1(p)
        head == SubSeq(p, 1, i)
        tail == SubSeq(p, i + 1, Len(p))
    IN  [head |-> IF head # <<>> /\ rstrip(head, {sep}) # <<>>
                  THEN rstrip(head, {sep}) ELSE head,
         tail |-> tail]

\* posixpath.dirname(p).
os_path_dirname(p) == os_path_split(p).head

\* posixpath.basename(p).
os_path_basename(p) == os_path_split(p).tail

RECURSIVE FsKey(_)
\* The path of the location with these names from the root down.
FsKey(names) ==
    IF names = <<>> THEN <<>>
    ELSE <<sep>> \o Head(names) \o FsKey(Tail(names))

RECURSIVE PathNames(_, _)
\* The names between the separators of path p, cur being the one in progress.
PathNames(p, cur) ==
    IF p = <<>> THEN <<cur>>
    ELSE IF Head(p) = sep THEN <<cur>> \o PathNames(Tail(p), <<>>)
    ELSE PathNames(Tail(p), Append(cur, Head(p)))

NonEmptyName(x) == x # <<>>

\* The location of the working directory wd, as the names from the root down.
CwdNames(wd) == SelectSeq(PathNames(wd, <<>>), NonEmptyName)

\* What is at a location: the working directory of the process and the
\* directories above it are directories when the filesystem does not say
\* otherwise, and any other location it does not hold is absent.
FsAt(f, names) ==
    LET k == IF names = <<>> THEN <<sep>> ELSE FsKey(names)
    IN  IF k \in DOMAIN f THEN f[k]
        ELSE IF Len(names) <= Len(CwdNames(cwd))
                /\ SubSeq(CwdNames(cwd), 1, Len(names)) = names THEN "dir"
        ELSE "absent"

RECURSIVE Walk(_, _, _)
\* The kernel's walk over the names cs from the location `at`: a name is
\* looked up in a directory only, so a plain file on the way gives ENOTDIR and
\* a missing entry ENOENT; '' and '.' stay, '..' goes to the parent (the root
\* is its own), any other name goes to the entry of that name, there or not.
Walk(f, cs, at) ==
    IF cs = <<>> THEN [err |-> "OK", at |-> at]
    ELSE IF FsAt(f, at) = "file" THEN [err |-> "ENOTDIR", at |-> at]
    ELSE IF FsAt(f, at) = "absent" THEN [err |-> "ENOENT", at |-> at]
    ELSE IF Head(cs) \in {<<>>, <<".">>} THEN Walk(f, Tail(cs), at)
    ELSE IF Head(cs) = <<".", ".">>
         THEN Walk(f, Tail(cs), IF at = <<>> THEN at ELSE SubSeq(at, 1, Len(at) - 1))
    ELSE Walk(f, Tail(cs), Append(at, Head(cs)))

\* The lookup of path p by a process whose working directory is wd: an empty
\* path names nothing, an absolute one is walked from the root, a relative one
\* from the working directory.
Lookup(f, p, wd) ==
    IF p = <<>> THEN [err |-> "ENOENT", at |-> <<>>]
    ELSE IF Head(p) = sep THEN Walk(f, PathNames(p, <<>>), <<>>)
    ELSE Walk(f, PathNames(wd, <<>>) \o PathNames(p, <<>>), <<>>)

\* What is at path p, as stat(p) finds it: a path whose lookup fails, or that
\* ends at an entry that is not there, is absent.
FsType(f, p) ==
    LET w == Lookup(f, p, cwd)
    IN  IF w.err # "OK" THEN "absent" ELSE FsAt(f, w.at)

\* os.path.exists(p).
os_path_exists(f, p) == FsType(f, p) # "absent"

\* os.path.isdir(p).
os_path_isdir(f, p) == FsType(f, p) = "dir"

\* The kernel's lookup of path p for making an entry, as os.mkdir and open
\* with 'wb' do it. An empty path gives ENOENT. Trailing separators are set
\* aside (`slash` tells there were some) and the names before the last are
\* walked: a plain file on the way gives ENOTDIR, a missing entry ENOENT.
\* `type` is what is at the last name; '.' and '..' there, and a path of
\* separators only, name a directory.
CreateLookup(f, p, wd) ==
    LET stripped == rstrip(p, {sep})
        names    == PathNames(stripped, <<>>)
        front    == SubSeq(names, 1, Len(names) - 1)
        last     == names[Len(names)]
        from     == IF Head(p) = sep THEN <<>> ELSE PathNames(wd, <<>>)
        w        == Walk(f, from \o front, <<>>)
    IN  IF p = <<>> THEN [err |-> "ENOENT", type |-> "absent", slash |-> FALSE]
        ELSE IF stripped = <<>> THEN [err |-> "OK", type |-> "dir", slash |-> TRUE]
        ELSE IF w.err # "OK" THEN [err |-> w.err, type |-> "absent", slash |-> FALSE]
        ELSE IF FsAt(f, w.at) = "file"
             THEN [err |-> "ENOTDIR", type |-> "absent", slash |-> FALSE]
        ELSE IF FsAt(f, w.at) = "absent"
             THEN [err |-> "ENOENT", type |-> "absent", slash |-> FALSE]
        ELSE [err   |-> "OK",
              type  |-> IF last \in {<<".">>, <<".", ".">>} THEN "dir"
                        ELSE FsAt(f, Append(w.at, last)),
              slash |-> stripped # p]

\* The outcomes of os.mkdir(p): ENOENT or ENOTDIR when the lookup fails,
\* EEXIST when something is there; otherwise it succeeds, or fails for a
\* reason of the environment's (permission, disk full).
MkdirOutcomes(f, p, faulty) ==
    LET r == CreateLookup(f, p, cwd)
    IN  IF r.err # "OK" THEN {r.err}
        ELSE IF r.type # "absent" THEN {"EEXIST"}
        ELSE {"OK"} \cup (IF faulty THEN {"EACCES"} ELSE {})

\* The outcomes of open(p, 'wb'), the first step of file.save(path): ENOENT
\* or ENOTDIR when the lookup fails, EISDIR when the path names a directory
\* or ends with a separator; otherwise it succeeds, or fails for a reason of
\* the environment's.
OpenOutcomes(f, p, faulty) ==
    LET r == CreateLookup(f, p, cwd)
    IN  IF r.err # "OK" THEN {r.err}
        ELSE IF r.slash \/ r.type = "dir" THEN {"EISDIR"}
        ELSE {"OK"} \cup (IF faulty THEN {"EACCES"} ELSE {})

\* The outcomes of copying the upload's bytes into the open file.
WriteOutcomes(faulty) == {"OK"} \cup (IF faulty THEN {"ENOSPC"} ELSE {})

\* Mutant of OpenTruncate: the file is opened without truncation.
OpenKeep(old) == old

\* open(p, 'wb') truncates the file.
OpenTruncate(old) == <<>>

\* Writing `content` at offset 0 of a file holding `old`: the bytes beyond
\* the written ones stay.
WriteAt0(old, content) ==
    content \o (IF Len(old) > Len(content)
                THEN SubSeq(old, Len(content) + 1, Len(old)) ELSE <<>>)

(* ------------------------------ LocalStore.exists, save ---------------- *)

\* LocalStore.exists(filename), local.py:150-166.
exists(store, f, name) == os_path_exists(f, join(<<store.store_path, name>>))

\* BaseStore.safe_filename(filename): the directory components are dropped,
\* and an empty or dot name is replaced, so the result has no separator and
\* is not empty.
safe_filename(name) ==
    LET base == os_path_basename(name)
    IN  IF base \in {<<>>, <<".">>, <<".", ".">>} THEN <<"_">> ELSE base

\* Mutant of SaveSwallows: no errno is swallowed.
SaveSwallowsNone(errno) == FALSE

\* Mutant of SaveSwallows: every OSError is swallowed.
SaveSwallowsAny(errno) == TRUE

\* local.py:191-193: save re-raises the OSError unless its errno is EEXIST.
SaveSwallows(errno) == errno = "EEXIST"

\* Mutant of SaveDirectoryOk: the parent only has to exist.
SaveDirectoryExists(f, d) == os_path_exists(f, d)

\* local.py:195: the check that lets save go on to the write.
SaveDirectoryOk(f, d) == os_path_isdir(f, d)

\* Mutant of SaveReturn: the upload's declared filename is returned.
SaveReturnDeclared(upload, safe) == upload.filename

\* local.py:202: save returns the safe filename.
SaveReturn(upload, safe) == safe

Ok(v) == [kind |-> "ok", errno |-> "none", value |-> v]

OSError(errno, p) == [kind |-> "OSError", errno |-> errno, value |-> p]

\* IOError('{0} is not a directory'.format(directory)), local.py:196.
NotADirectory(d) == [kind |-> "IOError", errno |-> "none", value |-> d]

\* The IOError file.save(path) raises.
WriteError(errno, p) == [kind |-> "IOError", errno |-> errno, value |-> p]

\* os.makedirs(name), its first half: split the name and look at the head.
\* TRUE when makedirs calls itself on the head before making `name`.
MakedirsRecurses(f, name) ==
    LET s0 == os_path_split(name)
        s  == IF s0.tail = <<>> THEN os_path_split(s0.head) ELSE s0
    IN  s.head # <<>> /\ s.tail # <<>> /\ ~os_path_exists(f, s.head)

\* The head os.makedirs(name) recurses on.
MakedirsHead(name) ==
    LET s0 == os_path_split(name)
    IN  IF s0.tail = <<>> THEN os_path_split(s0.head).head ELSE s0.head

\* The tail os.makedirs(name) compares with os.curdir.
MakedirsTail(name) ==
    LET s0 == os_path_split(name)
    IN  IF s0.tail = <<>> THEN os_path_split(s0.head).tail ELSE s0.tail

RECURSIVE MakedirsResume(_)
\* The frames left when the innermost os.makedirs frame has returned or its
\* EEXIST was swallowed by its caller: the caller goes on to its own mkdir,
\* unless its tail is '.', when it returns too.
MakedirsResume(frames) ==
    LET outer == SubSeq(frames, 1, Len(frames) - 1)
    IN  IF outer = <<>> THEN outer
        ELSE IF MakedirsTail(outer[Len(outer)]) = <<".">> THEN MakedirsResume(outer)
        ELSE outer

\* local.py:182-186: the names are resolved and the parent is looked for.
SaveBegin(c) ==
    /\ pc[c] = "idle"
    /\ LET name == safe_filename(file[c].filename)
           pth  == join(<<store_path, name>>)
           dir  == os_path_dirname(pth)
       IN  /\ filename' = [filename EXCEPT ![c] = name]
           /\ path' = [path EXCEPT ![c] = pth]
           /\ directory' = [directory EXCEPT ![c] = dir]
           /\ IF ~os_path_exists(fs, dir)
              THEN /\ pc' = [pc EXCEPT ![c] = "makedirs"]
                   /\ pending' = [pending EXCEPT ![c] = <<dir>>]
                   /\ makedirsCalls' = [makedirsCalls EXCEPT ![c] = @ + 1]
              ELSE /\ pc' = [pc EXCEPT ![c] = "isdir"]
                   /\ UNCHANGED <<pending, makedirsCalls>>
    /\ UNCHANGED <<appVars, storeVars, callVars, fsVars, file, result, closed,
                   raised, saveCalled, writeErr, seen, completed, overlap>>

\* os.makedirs(name), local.py:190: the innermost frame looks at its head and
\* either recurses on it or goes on to os.mkdir(name).
SaveMakedirs(c) ==
    /\ pc[c] = "makedirs"
    /\ LET name == pending[c][Len(pending[c])]
       IN  IF MakedirsRecurses(fs, name)
           THEN /\ pending' = [pending EXCEPT ![c] = Append(@, MakedirsHead(name))]
                /\ UNCHANGED pc
           ELSE /\ pc' = [pc EXCEPT ![c] = "mkdir"]
                /\ UNCHANGED pending
    /\ UNCHANGED <<appVars, storeVars, callVars, fsVars, file, filename, path, directory,
                   result, closed, histVars>>

\* os.mkdir(name) in the innermost os.makedirs frame, and where its outcome
\* leads: an inner frame's EEXIST is swallowed by the frame above it; any
\* other error, and the outermost frame's EEXIST, reach save (local.py:189-193),
\* which swallows EEXIST and re-raises the rest.
SaveMkdir(c) ==
    /\ pc[c] = "mkdir"
    /\ LET name  == pending[c][Len(pending[c])]
           inner == Len(pending[c]) > 1
       IN  \E out \in MkdirOutcomes(fs, name, faults) :
             /\ fs' = IF out = "OK" THEN [fs EXCEPT ![name] = "dir"] ELSE fs
             /\ IF out = "OK" \/ (inner /\ out = "EEXIST")
                THEN /\ pending' = [pending EXCEPT ![c] = MakedirsResume(@)]
                     /\ pc' = [pc EXCEPT ![c] =
                                 IF MakedirsResume(pending[c]) = <<>> THEN "isdir" ELSE "mkdir"]
                     /\ UNCHANGED <<result, raised>>
                ELSE /\ pending' = [pending EXCEPT ![c] = <<>>]
                     /\ raised' = [raised EXCEPT ![c] = out]
                     /\ IF SaveSwallows(out)
                        THEN /\ pc' = [pc EXCEPT ![c] = "isdir"]
                             /\ UNCHANGED result
                        ELSE /\ pc' = [pc EXCEPT ![c] = "done"]
                             /\ result' = [result EXCEPT ![c] = OSError(out, name)]
    /\ UNCHANGED <<appVars, storeVars, callVars, data, faults, file, filename, path,
                   directory, closed, makedirsCalls, saveCalled, writeErr, seen,
                   completed, overlap>>

\* local.py:195-196: the parent must be a directory, else IOError.
SaveIsDir(c) ==
    /\ pc[c] = "isdir"
    /\ IF SaveDirectoryOk(fs, directory[c])
       THEN /\ pc' = [pc EXCEPT ![c] = "open"]
            /\ UNCHANGED result
       ELSE /\ pc' = [pc EXCEPT ![c] = "done"]
            /\ result' = [result EXCEPT ![c] = NotADirectory(directory[c])]
    /\ UNCHANGED <<appVars, storeVars, callVars, fsVars, file, filename, path, directory,
                   pending, closed, histVars>>

\* local.py:199, file.save(path), first step: the target is opened for
\* writing, which creates or truncates it. A failure leaves save at once.
SaveOpen(c) ==
    /\ pc[c] = "open"
    /\ saveCalled' = [saveCalled EXCEPT ![c] = TRUE]
    /\ \E out \in OpenOutcomes(fs, path[c], faults) :
         IF out = "OK"
         THEN /\ fs' = [fs EXCEPT ![path[c]] = "file"]
              /\ data' = [data EXCEPT ![path[c]] = OpenTruncate(@)]
              /\ overlap' = (overlap \/ \E o \in Callers \ {c} :
                                            pc[o] = "write" /\ path[o] = path[c])
              /\ pc' = [pc EXCEPT ![c] = "write"]
              /\ UNCHANGED <<result, writeErr>>
         ELSE /\ writeErr' = [writeErr EXCEPT ![c] = out]
              /\ result' = [result EXCEPT ![c] = WriteError(out, path[c])]
              /\ pc' = [pc EXCEPT ![c] = "done"]
              /\ UNCHANGED <<fs, data, overlap>>
    /\ UNCHANGED <<appVars, storeVars, callVars, faults, file, filename, path, directory,
                   pending, closed, raised, makedirsCalls, seen, completed>>

\* local.py:199, file.save(path), second step: the upload's bytes are written
\* from the start of the opened file. A failure leaves save at once.
SaveWrite(c) ==
    /\ pc[c] = "write"
    /\ \E out \in WriteOutcomes(faults) :
         IF out = "OK"
         THEN /\ data' = [data EXCEPT ![path[c]] = WriteAt0(@, file[c].content)]
              /\ completed' = Append(completed, c)
              /\ pc' = [pc EXCEPT ![c] = "close"]
              /\ UNCHANGED <<result, writeErr>>
         ELSE /\ writeErr' = [writeErr EXCEPT ![c] = out]
              /\ result' = [result EXCEPT ![c] = WriteError(out, path[c])]
              /\ pc' = [pc EXCEPT ![c] = "done"]
              /\ UNCHANGED <<data, completed>>
    /\ UNCHANGED <<appVars, storeVars, callVars, fs, faults, file, filename, path,
                   directory, pending, closed, raised, makedirsCalls, saveCalled, seen,
                   overlap>>

\* local.py:200-202: file.close(), then the filename is returned.
SaveClose(c) ==
    /\ pc[c] = "close"
    /\ closed' = [closed EXCEPT ![c] = @ + 1]
    /\ result' = [result EXCEPT ![c] = Ok(SaveReturn(file[c], filename[c]))]
    /\ pc' = [pc EXCEPT ![c] = "done"]
    /\ UNCHANGED <<appVars, storeVars, callVars, fsVars, file, filename, path, directory,
                   pending, histVars>>

\* The caller asks exists(f) for the filename f that save returned.
ExistsAfterSave(c) ==
    /\ pc[c] = "done" /\ result[c].kind = "ok"
    /\ seen' = [seen EXCEPT ![c] =
                   IF exists(self, fs, result[c].value) THEN "True" ELSE "False"]
    /\ pc' = [pc EXCEPT ![c] = "checked"]
    /\ UNCHANGED <<appVars, storeVars, callVars, fsVars, file, filename, path, directory,
                   pending, result, closed, raised, makedirsCalls, saveCalled, writeErr,
                   completed, overlap>>

\* Another actor creates a plain file where nothing is, under a directory.
ActorCreatesFile ==
    /\ faults
    /\ \E p \in DOMAIN fs :
         /\ fs[p] = "absent" /\ FsType(fs, os_path_dirname(p)) = "dir"
         /\ fs' = [fs EXCEPT ![p] = "file"]
    /\ UNCHANGED <<appVars, storeVars, callVars, data, faults, saveVars, histVars>>

(* ------------------------------ save: the runs ------------------------- *)

\* The directory the store of the save runs writes into.
SaveStorePath == <<sep, "s", sep, "d">>

\* The filenames the uploads declare: plain, with a directory component,
\* empty, and the two dot names.
UploadNames == {<<"f">>, <<"d", sep, "f">>, <<>>, <<".">>, <<".", ".">>}

\* The bytes the uploads hold.
Contents == {<<"x", "x">>, <<"y">>}

\* The bytes of a file that was there before.
OldContent == <<"o", "o", "o">>

\* The paths save writes to.
Targets == {join(<<SaveStorePath, safe_filename(n)>>) : n \in UploadNames}

\* The paths the filesystem of the save runs holds: the root, the store's
\* directory and the one above it, and the targets.
FsPaths == {<<sep>>, <<sep, "s">>, SaveStorePath} \cup Targets

\* Something is at a path only under a directory, and the root is a directory.
WellFormed(f) ==
    /\ f[<<sep>>] = "dir"
    /\ \A p \in DOMAIN f \ {<<sep>>} :
          f[p] # "absent" => f[os_path_dirname(p)] = "dir"

\* Nothing stands in save's way: no plain file where a directory goes, no
\* directory where a file goes.
Benign(f) ==
    /\ \A p \in DOMAIN f \ Targets : f[p] # "file"
    /\ \A p \in Targets : f[p] # "dir"

\* The save-side state before any caller has started, over filesystem f.
SaveStart(f) ==
    /\ fs = f
    /\ data = [p \in FsPaths |-> IF f[p] = "file" THEN OldContent ELSE <<>>]
    /\ pc = [c \in Callers |-> "idle"]
    /\ file \in [Callers -> [filename : UploadNames, content : Contents]]
    /\ filename = [c \in Callers |-> None]
    /\ path = [c \in Callers |-> None]
    /\ directory = [c \in Callers |-> None]
    /\ pending = [c \in Callers |-> <<>>]
    /\ result = [c \in Callers |-> [kind |-> "none", errno |-> "none", value |-> None]]
    /\ closed = [c \in Callers |-> 0]
    /\ raised = [c \in Callers |-> "none"]
    /\ makedirsCalls = [c \in Callers |-> 0]
    /\ saveCalled = [c \in Callers |-> FALSE]
    /\ writeErr = [c \in Callers |-> "none"]
    /\ seen = [c \in Callers |-> "unset"]
    /\ completed = <<>>
    /\ overlap = FALSE

\* The application side of the save runs.
SaveApp ==
    /\ cwd = <<sep, "a">>
    /\ store_path = SaveStorePath
    /\ destination = None
    /\ config = [STORE_PATH |-> store_path, STORE_URL_PREFIX |-> DefaultUrlPrefix,
                 STORE_DOMAIN |-> None]
    /\ hostSet = {} /\ defaultsCalls = 0
    /\ op = "none" /\ args = <<>> /\ ret = None

\* One step of a caller's save, or its exists call after it.
SaveStep(c) ==
    \/ SaveBegin(c)
    \/ SaveMakedirs(c)
    \/ SaveMkdir(c)
    \/ SaveIsDir(c)
    \/ SaveOpen(c)
    \/ SaveWrite(c)
    \/ SaveClose(c)
    \/ ExistsAfterSave(c)

\* Two callers over any filesystem, in an environment where calls can fail
\* and another actor creates files.
InitSave ==
    /\ SaveApp
    /\ faults = TRUE
    /\ \E f \in [FsPaths -> {"absent", "dir", "file"}] : WellFormed(f) /\ SaveStart(f)

NextSave == (\E c \in Callers : SaveStep(c)) \/ ActorCreatesFile

SpecSave == InitSave /\ [][NextSave]_vars

\* Two callers alone with a filesystem that nothing stands in the way of.
InitRace ==
    /\ SaveApp
    /\ faults = FALSE
    /\ \E f \in [FsPaths -> {"absent", "dir", "file"}] :
          WellFormed(f) /\ Benign(f) /\ SaveStart(f)

NextRace == \E c \in Callers : SaveStep(c)

SpecRace == InitRace /\ [][NextRace]_vars

(* ------------------------------ claims: save --------------------------- *)

Returned(c) == pc[c] \in {"done", "checked"}

\* C1: two concurrent save calls into the same parent directory, which may
\* not exist yet, raise nothing under any interleaving of their existence
\* checks and directory creations, and both reach the write step.
ConcurrentCreationSucceeds ==
    \A c \in Callers :
        /\ result[c].kind \in {"none", "ok"}
        /\ Returned(c) => saveCalled[c]

\* C1 witness: both callers found the parent missing and called os.makedirs,
\* one of them got EEXIST from it, and both returned a filename.
ConcurrentCreationWitness ==
    /\ \A c \in Callers : result[c].kind = "ok" /\ makedirsCalls[c] = 1
    /\ \E c \in Callers : raised[c] = "EEXIST"

\* C2, as claimed: when the write step of save fails, the upload's close has
\* run exactly once by the time the error reaches the caller.
ClosedOnWriteFailure ==
    \A c \in Callers :
        (Returned(c) /\ writeErr[c] # "none") => closed[c] = 1

\* C3: the filename a successful save returned exists: at once, and (nothing
\* here removes files) whenever exists is asked afterwards; for every declared
\* filename, the empty and the dot names included, and every filesystem.
RoundTripExistence ==
    \A c \in Callers :
        /\ (pc[c] = "done" /\ result[c].kind = "ok") => exists(self, fs, result[c].value)
        /\ seen[c] \in {"unset", "True"}

\* C3 witness: an upload declared with a directory component and one declared
\* as '..' were saved, each under the name save derived for it, and exists(f)
\* answered true for each returned name f.
RoundTripWitness ==
    \E c, o \in Callers :
        /\ file[c].filename = <<"d", sep, "f">>
        /\ result[c] = Ok(<<"f">>)
        /\ seen[c] = "True"
        /\ file[o].filename = <<".", ".">>
        /\ result[o] = Ok(safe_filename(<<".", ".">>))
        /\ seen[o] = "True"

\* C4: a save that ends while its parent path is a plain file (there before
\* the call, or put there by another actor during the creation attempt) ends
\* with the IOError naming that path, and without having called file.save;
\* and file.save is only ever called under a parent that is a directory.
NotADirectoryFails ==
    /\ [](\A c \in Callers : saveCalled[c] => os_path_isdir(fs, directory[c]))
    /\ [][\A c \in Callers :
            (pc[c] \notin {"idle", "done", "checked"} /\ pc'[c] = "done"
                /\ FsType(fs, directory[c]) = "file")
            => (result'[c] = NotADirectory(directory[c]) /\ ~saveCalled'[c])]_vars

\* C4 witness: the parent was missing when save looked, another actor put a
\* plain file there, os.makedirs raised EEXIST, and save raised the IOError.
NotADirectoryWitness ==
    \E c \in Callers :
        /\ makedirsCalls[c] = 1 /\ raised[c] = "EEXIST"
        /\ fs[SaveStorePath] = "file"
        /\ result[c] = NotADirectory(SaveStorePath)
        /\ ~saveCalled[c]

\* C7, as claimed: when both saves of one filename have returned, the target
\* holds the upload of the caller whose write completed last.
LastWriteWins ==
    \A c, o \in Callers :
        (c # o /\ Returned(c) /\ Returned(o) /\ path[c] = path[o]
            /\ Len(completed) = 2 /\ completed[2] = c)
        => data[path[c]] = file[c].content

\* C7, amended: both saves of one filename succeed and leave a file at the
\* target; it holds the upload of the caller whose write completed last when
\* the two writes did not overlap (neither caller opened the target between
\* the other's open and write).
LastWriteWinsUnlessOverlap ==
    \A c, o \in Callers :
        (c # o /\ Returned(c) /\ Returned(o) /\ path[c] = path[o])
        => /\ result[c].kind = "ok" /\ result[o].kind = "ok"
           /\ fs[path[c]] = "file"
           /\ (~overlap /\ completed[2] = c) => data[path[c]] = file[c].content

\* C7 witness: two uploads of different bytes went to one target that held
\* an older file, one write after the other, and the later one's bytes are
\* what the target holds.
LastWriteWinsWitness ==
    /\ \A c \in Callers : Returned(c) /\ path[c] = <<sep, "s", sep, "d", sep, "f">>
    /\ file["c1"].content = <<"x", "x">> /\ file["c2"].content = <<"y">>
    /\ ~overlap /\ completed = <<"c1", "c2">>
    /\ data[<<sep, "s", sep, "d", sep, "f">>] = <<"y">>

\* C9: an os.makedirs failure other than EEXIST ends save with that OSError,
\* after the one os.makedirs call and before any file.save; a failure save
\* went on after was EEXIST.
OnlyEexistSwallowed ==
    \A c \in Callers :
        /\ raised[c] \notin {"none", "EEXIST"} =>
              /\ Returned(c)
              /\ result[c].kind = "OSError" /\ result[c].errno = raised[c]
              /\ makedirsCalls[c] = 1
              /\ ~saveCalled[c]
        /\ (raised[c] # "none" /\ result[c].kind # "OSError") => raised[c] = "EEXIST"

\* C9 witness: one caller's os.makedirs failed with EACCES and its save
\* raised that; the other's failed with EEXIST and its save went on to the
\* directory check.
OnlyEexistSwallowedWitness ==
    /\ raised["c1"] = "EACCES" /\ result["c1"] = OSError("EACCES", SaveStorePath)
    /\ raised["c2"] = "EEXIST" /\ result["c2"] = NotADirectory(SaveStorePath)

====
